---- MODULE Spec2Model ----
(***************************************************************************)
(* State-machine model of homework.py: a bot that polls the homework       *)
(* review API and relays status changes to a Telegram chat.                *)
(*                                                                         *)
(* The Russian string literals of the source are written here in English   *)
(* (module strings are ASCII); every literal keeps its own distinct text,  *)
(* so equality between messages is what it is in the source.               *)
(***************************************************************************)
EXTENDS Integers, Sequences, FiniteSets, TLC

VARIABLES
    PRACTICUM_TOKEN,    \* os.getenv('PRACTICUM_TOKEN')
    TELEGRAM_TOKEN,     \* os.getenv('TELEGRAM_TOKEN')
    TELEGRAM_CHAT_ID,   \* os.getenv('TELEGRAM_CHAT_ID')
    pc,                 \* position of main
    now,                \* int(time.time())
    current_timestamp,  \* main's poll cursor
    box_error,          \* main's last reported error message
    response,           \* this iteration's get_api_answer result
    homeworks,          \* this iteration's check_response result
    idx,                \* position of the for loop in homeworks
    error,              \* the exception caught at line 144
    unhandled,          \* the exception that ended main, if one did
    fetch,              \* this iteration's HTTP exchange
    last_call,          \* when get_api_answer was last called
    chat,               \* messages delivered to the chat in this iteration
    cursor_at_start,    \* current_timestamp when this iteration began
    log,                \* summaries of the last two completed iterations
    alerted,            \* text of the last operator alert the chat received
    call                \* a function called on its own: argument and result

env == <<PRACTICUM_TOKEN, TELEGRAM_TOKEN, TELEGRAM_CHAT_ID>>

\* the locals and records of one iteration
iteration == <<response, homeworks, idx, error, fetch, chat, cursor_at_start>>

vars == <<env, pc, now, current_timestamp, box_error, iteration, unhandled,
          last_call, log, alerted, call>>

----------------------------------------------------------------------------
(* Bounds of the model *)

MaxSleeps == 3      \* sleeps of main the clock is followed through
MaxItems == 2       \* longest homeworks list a response carries
StartTime == 1000   \* time.time() when main starts

(* Program constants *)

TELEGRAM_RETRY_TIME == 600
HTTP_OK == 200

----------------------------------------------------------------------------
(* Python values: tagged records *)

None == [t |-> "NoneType"]
PyInt(n) == [t |-> "int", v |-> n]
PyStr(s) == [t |-> "str", v |-> s]
PyList(q) == [t |-> "list", v |-> q]
PyDict(d) == [t |-> "dict", v |-> d]

\* bool(x) for the values a cursor takes
Truthy(x) ==
    CASE x.t = "NoneType" -> FALSE
      [] x.t = "int" -> x.v # 0
      [] x.t = "str" -> x.v # ""
      [] x.t = "list" -> x.v # <<>>
      [] OTHER -> DOMAIN x.v # {}

\* format(x, '') as an f-string field renders it
Format(x) ==
    CASE x.t = "NoneType" -> "None"
      [] x.t = "int" -> ToString(x.v)
      [] x.t = "str" -> x.v
      [] OTHER -> "<object>"

\* hash(x) raises TypeError for the mutable containers
Hashable(x) == x.t \notin {"list", "dict"}

\* dict.get(key): the value, or None when the key is absent
Get(d, key) == IF key \in DOMAIN d.v THEN d.v[key] ELSE None

(* Results of a call: a returned value or a raised exception *)

Return(v) == [ok |-> TRUE, val |-> v]
Raise(e) == [ok |-> FALSE, val |-> e]
Exc(type, args) == [type |-> type, args |-> args]

\* str(exception): no argument gives '', KeyError shows the repr of its
\* single argument, every other class the argument itself
ExcStr(e) ==
    IF e.args = <<>> THEN ""
    ELSE IF e.type = "KeyError" THEN "'" \o e.args[1] \o "'"
    ELSE e.args[1]

----------------------------------------------------------------------------
(* Exception classes.  NoAccessToApiExeption and SendMessageExeptinon come *)
(* from the module exceptions; the others are the libraries' classes.      *)

\* the classes of exceptions.py, plain subclasses of Exception
RepositoryExceptions ==
    [c \in {"NoAccessToApiExeption", "SendMessageExeptinon"} |-> "Exception"]

Bases ==
    RepositoryExceptions
    @@ [c \in {"KeyError", "TypeError", "AttributeError", "ConnectionError",
               "TelegramError", "InvalidToken", "ValueError"} |-> "Exception"]
    @@ ("json.JSONDecodeError" :> "ValueError")
    @@ ("requests.JSONDecodeError" :> "json.JSONDecodeError")
    @@ ("simplejson.JSONDecodeError" :> "ValueError")
    @@ ("Exception" :> "BaseException")

RECURSIVE IsSubclass(_, _)
IsSubclass(type, base) ==
    \/ type = base
    \/ type \in DOMAIN Bases /\ IsSubclass(Bases[type], base)

----------------------------------------------------------------------------
(* HOMEWORK_VERDICTS, lines 35-39 *)

\* the table with two verdicts exchanged
HOMEWORK_VERDICTS_Swapped ==
    [approved |-> "Work checked: the reviewer has remarks.",
     reviewing |-> "Work taken for review by the reviewer.",
     rejected |-> "Work checked: the reviewer liked everything. Hooray!"]

HOMEWORK_VERDICTS ==
    [approved |-> "Work checked: the reviewer liked everything. Hooray!",
     reviewing |-> "Work taken for review by the reviewer.",
     rejected |-> "Work checked: the reviewer has remarks."]

(* send_message, lines 42-49.  bot_result is what bot.send_message did:    *)
(* it returned, or it raised a telegram error.                             *)

send_message(bot_result) ==
    IF bot_result.ok
    THEN Return(None)
    ELSE IF IsSubclass(bot_result.val.type, "Exception")
         THEN Raise(Exc("SendMessageExeptinon", <<>>))
         ELSE bot_result

(* get_api_answer, lines 52-75 *)

Timestamp_Clock(timestamp, clock) == PyInt(clock)

\* a from_date that is the cursor as it stands
Timestamp_Cursor(timestamp, clock) == timestamp

\* line 54: the from_date parameter
Timestamp(timestamp, clock) ==
    IF Truthy(timestamp) THEN timestamp ELSE PyInt(clock)

\* http is what requests.get did: it raised, or it returned a response
\* with a status_code and a json() result
get_api_answer(http) ==
    LET try ==
            IF ~http.ok THEN http
            ELSE IF http.val.status_code # HTTP_OK
                 THEN Raise(Exc("NoAccessToApiExeption",
                                <<" ENDPOINT unavailable. Error: "
                                  \o ToString(http.val.status_code)>>))
                 ELSE http.val.json
    IN  IF try.ok THEN try
        ELSE IF IsSubclass(try.val.type, "json.JSONDecodeError")
             \* raise json.JSONDecodeError: the class is instantiated
             \* without its three required arguments
             THEN Raise(Exc("TypeError",
                     <<"JSONDecodeError.__init__() missing 3 required positional arguments: 'msg', 'doc', and 'pos'">>))
        ELSE IF IsSubclass(try.val.type, "Exception")
             THEN Raise(Exc("NoAccessToApiExeption", <<"No API access">>))
        ELSE try

(* check_response, lines 78-92 *)

\* obj[key] with a str key
Subscript(obj, key) ==
    CASE obj.t = "dict" ->
            IF key \in DOMAIN obj.v THEN Return(obj.v[key])
            ELSE Raise(Exc("KeyError", <<key>>))
      [] obj.t = "list" ->
            Raise(Exc("TypeError",
                      <<"list indices must be integers or slices, not str">>))
      [] obj.t = "str" ->
            Raise(Exc("TypeError", <<"string indices must be integers">>))
      [] OTHER ->
            Raise(Exc("TypeError",
                      <<"'" \o obj.t \o "' object is not subscriptable">>))

\* a validation that lets the lookup's own error through
check_response_Unwrapped(resp) ==
    LET homework == Subscript(resp, "homeworks")
    IN  IF ~homework.ok THEN homework
        ELSE IF resp.t # "dict"
             THEN Raise(Exc("TypeError", <<"response must be a dict">>))
        ELSE IF homework.val.t # "list"
             THEN Raise(Exc("TypeError", <<"homework must be a list">>))
        ELSE homework

check_response(resp) ==
    LET homework == Subscript(resp, "homeworks")
    IN  IF ~homework.ok
        THEN IF IsSubclass(homework.val.type, "KeyError")
             THEN Raise(Exc("KeyError", <<"Key homeworks is not available">>))
             ELSE homework
        ELSE IF resp.t # "dict"
             THEN Raise(Exc("TypeError", <<"response must be a dict">>))
        ELSE IF homework.val.t # "list"
             THEN Raise(Exc("TypeError", <<"homework must be a list">>))
        ELSE homework

(* parse_status, lines 95-105 *)

parse_status_Lenient(homework) ==
    Return("Changed review status of \""
           \o Format(Get(homework, "homework_name")) \o "\". "
           \o Format(Get(homework, "status")))

parse_status(homework) ==
    IF homework.t # "dict"
    THEN Raise(Exc("AttributeError",
                   <<"'" \o homework.t \o "' object has no attribute 'get'">>))
    ELSE LET homework_name == Get(homework, "homework_name")
             homework_status == Get(homework, "status")
         IN  \* line 100: the membership test hashes homework_status
             IF ~Hashable(homework_status)
             THEN Raise(Exc("TypeError",
                            <<"unhashable type: '" \o homework_status.t
                              \o "'">>))
             ELSE IF ~(homework_status.t = "str"
                       /\ homework_status.v \in DOMAIN HOMEWORK_VERDICTS)
             THEN Raise(Exc("KeyError", <<"Homework status is undefined.">>))
             ELSE Return("Changed review status of \""
                         \o Format(homework_name) \o "\". "
                         \o HOMEWORK_VERDICTS[homework_status.v])

(* check_tokens, lines 108-122 *)

\* a credential check that forgets the chat id
check_tokens_TwoOfThree(practicum, telegram, chat_id) ==
    \A value \in {practicum, telegram} : value # None

check_tokens(practicum, telegram, chat_id) ==
    \A value \in {practicum, telegram, chat_id} : value # None

----------------------------------------------------------------------------
(* What the environment can hand to the program *)

Absent == [t |-> "absent"]      \* marks a key left out of a dict
EmptyDict == [k \in {} |-> None]
Field(key, value) == IF value = Absent THEN EmptyDict ELSE key :> value

Homework(name, status) ==
    PyDict(Field("homework_name", name) @@ Field("status", status))

SeqsUpTo(S, n) == UNION {[1..k -> S] : k \in 0..n}

\* os.getenv: None when the variable is not set
EnvValues == {None, PyStr("secret")}
Names == {PyStr("Proj1")}
Statuses == {PyStr("approved"), PyStr("reviewing"), PyStr("rejected"),
             PyStr("unknown"), PyList(<<>>), Absent}
Dates == {Absent, PyInt(0), PyInt(1500)}
StatusCodes == {HTTP_OK, 500, 503}

Items == {Homework(n, s) : n \in Names, s \in Statuses}

\* the items main's loop is fed: two known statuses, an unknown one, one
\* that is no string, none
LoopItems == {h \in Items : Get(h, "status") # PyStr("reviewing")}

WellFormed ==
    {PyDict(Field("homeworks", PyList(q)) @@ Field("current_date", d)) :
        q \in SeqsUpTo(LoopItems, MaxItems), d \in Dates}

Malformed ==
    {PyDict(Field("current_date", PyInt(1500))),
     PyDict(Field("homeworks", None)),
     PyList(<<>>)}

Responses == WellFormed \cup Malformed

\* response.json() of a body that is not JSON raises the JSONDecodeError
\* of the installed requests: a subclass of json.JSONDecodeError, or
\* simplejson's class when simplejson is installed
DecodeErrors == {"requests.JSONDecodeError", "simplejson.JSONDecodeError"}

HttpOutcomes ==
    {Raise(Exc("ConnectionError", <<>>))}
    \cup {Return([status_code |-> c,
                  json |-> Raise(Exc("requests.JSONDecodeError", <<>>))]) :
            c \in StatusCodes \ {HTTP_OK}}
    \cup {Return([status_code |-> HTTP_OK, json |-> Raise(Exc(e, <<>>))]) :
            e \in DecodeErrors}
    \cup {Return([status_code |-> HTTP_OK, json |-> Return(r)]) :
            r \in Responses}

BotResults == {Return(None), Raise(Exc("TelegramError", <<>>))}

\* which of its ways requests.get went
Mode(http) ==
    IF ~http.ok THEN "transport"
    ELSE IF http.val.status_code # HTTP_OK THEN "status"
    ELSE IF ~http.val.json.ok THEN "decode"
    ELSE "json"

StatusCode(http) == IF http.ok THEN http.val.status_code ELSE 0

----------------------------------------------------------------------------
(* main, lines 125-152 *)

Unbound == [t |-> "unbound"]    \* a local not assigned (in this iteration)
NoCall == [issued |-> FALSE, at |-> 0]

\* telegram.Bot(token): the library refuses an empty token
Bot(token) ==
    IF token.v = "" THEN Raise(Exc("InvalidToken", <<>>)) ELSE Return(token)

\* line 145
ErrorMessage(e) == "Program failure: " \o ExcStr(e)

Reportable_Always(message, last) == TRUE

\* line 146
Reportable(message, last) == message # last

\* one call of bot.send_message, as the chat saw it
Sent(kind, text, result) ==
    [kind |-> kind, text |-> text, delivered |-> result.ok]

\* what the log keeps of the iteration that ends
Summary(outcome, message, alerts) ==
    [outcome |-> outcome, message |-> message, alerts |-> alerts,
     \* whether it repeated the error last reported before it
     repeat |-> outcome = "failed" /\ message = box_error,
     \* whether the chat's last alert already had its message
     known |-> outcome = "failed" /\ message = alerted,
     mode |-> fetch.mode, status_code |-> fetch.status_code,
     date |-> IF outcome = "ok" THEN Get(response, "current_date") ELSE None]

Logged(entry) ==
    IF log = <<>> THEN <<entry>> ELSE <<log[Len(log)], entry>>

\* an iteration is over: its locals are dead
EndIteration ==
    /\ response' = Unbound
    /\ homeworks' = Unbound
    /\ idx' = 0
    /\ error' = Unbound
    /\ fetch' = Unbound
    /\ chat' = <<>>
    /\ cursor_at_start' = Unbound

InitLoop ==
    /\ pc = "start"
    /\ now = StartTime
    /\ current_timestamp = Unbound
    /\ box_error = Unbound
    /\ response = Unbound
    /\ homeworks = Unbound
    /\ idx = 0
    /\ error = Unbound
    /\ unhandled = Unbound
    /\ fetch = Unbound
    /\ last_call = NoCall
    /\ chat = <<>>
    /\ cursor_at_start = Unbound
    /\ log = <<>>
    /\ alerted = ""
    /\ call = Unbound

\* every credential is set or not set
Init ==
    /\ PRACTICUM_TOKEN \in EnvValues
    /\ TELEGRAM_TOKEN \in EnvValues
    /\ TELEGRAM_CHAT_ID \in EnvValues
    /\ InitLoop

\* lines 127-133: the credential check, the bot, the first cursor
Startup ==
    /\ pc = "start"
    /\ IF ~check_tokens(PRACTICUM_TOKEN, TELEGRAM_TOKEN, TELEGRAM_CHAT_ID)
       THEN /\ pc' = "exited"
            /\ UNCHANGED <<current_timestamp, box_error, unhandled>>
       ELSE IF ~Bot(TELEGRAM_TOKEN).ok
       THEN /\ pc' = "crashed"
            /\ unhandled' = Bot(TELEGRAM_TOKEN).val
            /\ UNCHANGED <<current_timestamp, box_error>>
       ELSE /\ pc' = "loop"
            /\ current_timestamp' = PyInt(now)
            /\ box_error' = ""
            /\ UNCHANGED unhandled
    /\ UNCHANGED <<env, now, iteration, last_call, log, alerted, call>>

\* lines 137-139: one fetch, its validation, the cursor assignment
Poll(outcomes) ==
    /\ pc = "loop"
    /\ now < StartTime + MaxSleeps * TELEGRAM_RETRY_TIME
    /\ \E exchange \in outcomes :
        LET answer == get_api_answer(exchange)
            checked == IF answer.ok THEN check_response(answer.val) ELSE answer
        IN  /\ fetch' = [from_date |-> Timestamp(current_timestamp, now),
                        mode |-> Mode(exchange),
                        status_code |-> StatusCode(exchange)]
            /\ response' = IF answer.ok THEN answer.val ELSE Unbound
            /\ IF checked.ok
               THEN /\ homeworks' = checked.val
                    /\ current_timestamp' = Get(answer.val, "current_date")
                    /\ idx' = 1
                    /\ pc' = "for"
                    /\ UNCHANGED error
               ELSE /\ error' = checked.val
                    /\ pc' = "except"
                    /\ UNCHANGED <<homeworks, current_timestamp, idx>>
    /\ last_call' = [issued |-> TRUE, at |-> now]
    /\ cursor_at_start' = current_timestamp
    /\ UNCHANGED <<env, now, box_error, chat, unhandled, log, alerted, call>>

\* lines 140-142: one pass of the for loop
ForItem ==
    /\ pc = "for"
    /\ idx <= Len(homeworks.v)
    /\ LET message == parse_status(homeworks.v[idx])
       IN  IF ~message.ok
           THEN /\ error' = message.val
                /\ pc' = "except"
                /\ UNCHANGED <<idx, chat>>
           ELSE \E bot_result \in BotResults :
                 LET sent == send_message(bot_result)
                 IN  IF sent.ok
                     THEN /\ chat' = Append(chat, Sent("notification",
                                                       message.val, sent))
                          /\ idx' = idx + 1
                          /\ UNCHANGED <<pc, error>>
                     ELSE /\ chat' = Append(chat, Sent("notification",
                                                       message.val, sent))
                          /\ error' = sent.val
                          /\ pc' = "except"
                          /\ UNCHANGED idx
    /\ UNCHANGED <<env, now, current_timestamp, box_error, response,
                   homeworks, fetch, unhandled, last_call, cursor_at_start,
                   log, alerted, call>>

\* an else branch that forgets the last reported error
Else_Reset ==
    /\ pc = "for"
    /\ idx > Len(homeworks.v)
    /\ now' = now + TELEGRAM_RETRY_TIME
    /\ pc' = "loop"
    /\ log' = Logged(Summary("ok", "", 0))
    /\ EndIteration
    /\ box_error' = ""
    /\ UNCHANGED <<env, current_timestamp, unhandled, last_call,
                   alerted, call>>

\* lines 150-152: the else branch of the try
Else ==
    /\ pc = "for"
    /\ idx > Len(homeworks.v)
    /\ now' = now + TELEGRAM_RETRY_TIME
    /\ pc' = "loop"
    /\ log' = Logged(Summary("ok", "", 0))
    /\ EndIteration
    /\ UNCHANGED <<env, current_timestamp, box_error, unhandled, last_call,
                   alerted, call>>

\* an except branch that remembers the message before sending it
Except_Eager ==
    /\ pc = "except"
    /\ LET message == ErrorMessage(error)
       IN  IF Reportable(message, box_error)
           THEN \E bot_result \in BotResults :
                 LET sent == send_message(bot_result)
                 IN  IF sent.ok
                     THEN /\ alerted' = message
                          /\ box_error' = message
                          /\ now' = now + TELEGRAM_RETRY_TIME
                          /\ pc' = "loop"
                          /\ log' = Logged(Summary("failed", message, 1))
                          /\ EndIteration
                          /\ UNCHANGED unhandled
                     ELSE \* raised inside the handler: nothing catches it
                          /\ chat' = Append(chat, Sent("alert", message, sent))
                          /\ unhandled' = sent.val
                          /\ pc' = "crashed"
                          /\ box_error' = message
                          /\ UNCHANGED <<now, log, response,
                                         homeworks, idx, error, fetch,
                                         cursor_at_start, alerted>>
           ELSE /\ pc' = "loop"
                /\ log' = Logged(Summary("failed", message, 0))
                /\ EndIteration
                /\ UNCHANGED <<box_error, now, unhandled, alerted>>
    /\ UNCHANGED <<env, current_timestamp, last_call, call>>

\* lines 144-149: the except branch of the try
Except ==
    /\ pc = "except"
    /\ LET message == ErrorMessage(error)
       IN  IF Reportable(message, box_error)
           THEN \E bot_result \in BotResults :
                 LET sent == send_message(bot_result)
                 IN  IF sent.ok
                     THEN /\ alerted' = message
                          /\ box_error' = message
                          /\ now' = now + TELEGRAM_RETRY_TIME
                          /\ pc' = "loop"
                          /\ log' = Logged(Summary("failed", message, 1))
                          /\ EndIteration
                          /\ UNCHANGED unhandled
                     ELSE \* raised inside the handler: nothing catches it
                          /\ chat' = Append(chat, Sent("alert", message, sent))
                          /\ unhandled' = sent.val
                          /\ pc' = "crashed"
                          /\ UNCHANGED <<box_error, now, log, response,
                                         homeworks, idx, error, fetch,
                                         cursor_at_start, alerted>>
           ELSE /\ pc' = "loop"
                /\ log' = Logged(Summary("failed", message, 0))
                /\ EndIteration
                /\ UNCHANGED <<box_error, now, unhandled, alerted>>
    /\ UNCHANGED <<env, current_timestamp, last_call, call>>

Next == Startup \/ Poll(HttpOutcomes) \/ ForItem \/ Else \/ Except

Spec == Init /\ [][Next]_vars

----------------------------------------------------------------------------
(* Properties of main's loop *)

Last(q) == q[Len(q)]

\* the last two completed iterations both failed
FailedPair ==
    /\ Len(log) = 2
    /\ log[1].outcome = "failed"
    /\ log[2].outcome = "failed"

\* main has just died inside the handler of a failed iteration that
\* followed a failed one
FailedThenCrashed ==
    /\ pc = "crashed"
    /\ error # Unbound
    /\ log # <<>>
    /\ Last(log).outcome = "failed"

\* C1 as stated: of two consecutive failed iterations with the same
\* formatted message at most one is alerted, and with different messages
\* both are alerted.
C1_Original ==
    FailedPair =>
        IF log[1].message = log[2].message
        THEN log[1].alerts + log[2].alerts <= 1
        ELSE log[1].alerts + log[2].alerts = 2

\* C1 as amended: the second of two consecutive failed iterations is
\* compared with the first one's message: the same message sends no alert
\* (so at most one for the two), a different message makes main call
\* send_message with it (delivered, or main dies of the failed send); every
\* failed iteration, the first included, is alerted exactly when its message
\* differs from the error reported last before it.
C1_Deduplication ==
    /\ FailedPair =>
        /\ log[2].repeat <=> log[2].message = log[1].message
        /\ log[1].message = log[2].message =>
                log[2].alerts = 0 /\ log[1].alerts + log[2].alerts <= 1
        /\ log[1].message # log[2].message => log[2].alerts = 1
    /\ \A i \in 1..Len(log) :
        log[i].outcome = "failed" =>
            (log[i].alerts = 1 <=> ~log[i].repeat)
    /\ FailedThenCrashed =>
        /\ ErrorMessage(error) # Last(log).message
        /\ Last(chat) = Sent("alert", ErrorMessage(error),
                             Raise(Exc("TelegramError", <<>>)))

\* two consecutive failures, different messages, one alert: the first
\* repeated the error reported before it
C1_Witness ==
    /\ FailedPair
    /\ log[1].message # log[2].message
    /\ log[1].alerts = 0
    /\ log[2].alerts = 1

\* C2: between two consecutive calls of get_api_answer main sleeps
\* TELEGRAM_RETRY_TIME, on every path.
C2_SleepBetweenCalls ==
    [][(pc = "loop" /\ pc' # "loop" /\ last_call.issued)
        => last_call'.at >= last_call.at + TELEGRAM_RETRY_TIME]_vars

\* C3: once the credential check has passed no error ends main.
C3_NoTerminalState == pc # "crashed"

\* C4: a failed send of the operator alert is not escalated: no exception
\* leaves main.
C4_AlertFailureNotEscalated ==
    (chat # <<>> /\ Last(chat).kind = "alert" /\ ~Last(chat).delivered)
        => unhandled = Unbound

\* C5: the cursor is advanced to the response's current_date only after
\* every item of the response was formatted and notified; on a failure it
\* keeps the value it had when the iteration began.
C5_CursorAfterItems ==
    (/\ response # Unbound
     /\ response.t = "dict"
     /\ "current_date" \in DOMAIN response.v
     /\ \/ pc = "for" /\ idx <= Len(homeworks.v)
        \/ pc = "except")
        => current_timestamp = cursor_at_start

\* C6: at-least-once delivery: when an iteration fails, every item with a
\* known status of its validated response was notified, or the cursor was
\* not advanced.
C6_AtLeastOnce ==
    (pc \in {"except", "crashed"} /\ homeworks # Unbound) =>
        \A i \in 1..Len(homeworks.v) :
            parse_status(homeworks.v[i]).ok =>
                \/ i <= Len(chat) /\ chat[i].kind = "notification"
                                  /\ chat[i].delivered
                \/ current_timestamp = cursor_at_start

\* the iteration is through its n items without an error
AllItemsDone == pc = "for" /\ idx > Len(homeworks.v)

\* exactly one notification per item, in list order, with parse_status's
\* text, and nothing else
NotifiedInOrder ==
    AllItemsDone =>
        chat = [i \in 1..Len(homeworks.v) |->
                    Sent("notification", parse_status(homeworks.v[i]).val,
                         Return(None))]

\* the iteration under way follows a successful one
AfterSuccess ==
    /\ pc \in {"for", "except", "crashed"}
    /\ fetch # Unbound
    /\ log # <<>>
    /\ Last(log).outcome = "ok"

\* C7 as stated: a successful iteration sends exactly its n notifications
\* and no alert, and the next call uses from_date = d, the response's
\* current_date.
C7_Original ==
    /\ NotifiedInOrder
    /\ (AfterSuccess /\ Last(log).date.t = "int")
            => fetch.from_date = Last(log).date

\* C7 as amended: the same, the next call using from_date = d when d is not
\* zero, and the time of the call when d is zero.
C7_SuccessfulIteration ==
    /\ NotifiedInOrder
    /\ (AfterSuccess /\ Last(log).date.t = "int") =>
        /\ Last(log).date.v # 0 => fetch.from_date = Last(log).date
        /\ Last(log).date.v = 0 => fetch.from_date = PyInt(last_call.at)

\* a second successful iteration of two different items, fetched from the
\* current_date of the first
C7_Witness ==
    /\ AllItemsDone
    /\ Len(homeworks.v) = 2
    /\ homeworks.v[1] # homeworks.v[2]
    /\ Len(chat) = 2
    /\ AfterSuccess
    /\ Last(log).date = PyInt(1500)
    /\ fetch.from_date = PyInt(1500)

\* C8: the error of a non-200 answer carries the status code, and two
\* consecutive polls failing with different codes give two different
\* messages and two alerts.
C8_StatusCodeReported ==
    /\ (pc = "except" /\ fetch.mode = "status") =>
            error.args = <<" ENDPOINT unavailable. Error: "
                           \o ToString(fetch.status_code)>>
    /\ (FailedPair /\ log[1].mode = "status" /\ log[2].mode = "status"
            /\ log[1].status_code # log[2].status_code) =>
            /\ log[1].message # log[2].message
            /\ log[1].alerts = 1
            /\ log[2].alerts = 1

\* C9: the three failure modes of get_api_answer give pairwise different
\* errors and messages, and a body that is not JSON gives a JSON decode
\* error.
C9_DistinctFailureModes ==
    /\ (FailedPair /\ log[1].mode # log[2].mode
            /\ {log[1].mode, log[2].mode}
                    \subseteq {"transport", "status", "decode"}) =>
            log[1].message # log[2].message
    /\ (pc = "except" /\ fetch.mode = "decode") =>
            IsSubclass(error.type, "json.JSONDecodeError")

Unknown(homework) ==
    LET status == Get(homework, "status")
    IN  ~(status.t = "str" /\ status.v \in {"approved", "reviewing", "rejected"})

FirstUnknown(q) ==
    CHOOSE k \in 1..Len(q) :
        Unknown(q[k]) /\ \A j \in 1..(k - 1) : ~Unknown(q[j])

StatusUndefined == Exc("KeyError", <<"Homework status is undefined.">>)

HasUnknown == 
    /\ homeworks # Unbound
    /\ \E k \in 1..Len(homeworks.v) : Unknown(homeworks.v[k])

\* the for loop never gets past the first item without a known status: it
\* and every later item get no notification, and the iteration does not
\* reach the else branch
StopsAtUnknown(k) ==
    /\ ~parse_status(homeworks.v[k]).ok
    /\ idx <= k
    /\ Cardinality({i \in 1..Len(chat) : chat[i].kind = "notification"}) < k
    /\ pc \in {"for", "except", "crashed"}
    /\ (pc = "except" /\ idx = k) => error = parse_status(homeworks.v[k]).val

\* C10: an item whose status is not one of the three known ones makes
\* parse_status raise the status error; the for loop never gets past the
\* first such item, which like every later item gets no notification, and
\* the iteration ends in the except branch.
C10_UnknownStatusFatal ==
    HasUnknown =>
        /\ parse_status(homeworks.v[FirstUnknown(homeworks.v)]).val
                = StatusUndefined
        /\ StopsAtUnknown(FirstUnknown(homeworks.v))

\* what holds of every status outside the three: the item is fatal to the
\* iteration, whichever error parse_status raises for it
FatalToIteration == HasUnknown => StopsAtUnknown(FirstUnknown(homeworks.v))

\* some credential is absent from the environment main starts in
AnyAbsent == None \in {PRACTICUM_TOKEN, TELEGRAM_TOKEN, TELEGRAM_CHAT_ID}

\* C11: when a credential is absent main ends before its loop: it is at its
\* start or has exited, no request was issued, no message was handed to
\* the bot, no iteration completed, and the exited process takes no step.
C11_AbsentCredentialNeverPolls ==
    AnyAbsent =>
        /\ pc \in {"start", "exited"}
        /\ last_call = NoCall
        /\ fetch = Unbound
        /\ chat = <<>>
        /\ log = <<>>
        /\ alerted = ""
        /\ pc = "exited" => ~ENABLED Next

C11_Witness ==
    /\ pc = "exited"
    /\ TELEGRAM_CHAT_ID = None
    /\ PRACTICUM_TOKEN # None
    /\ TELEGRAM_TOKEN # None

----------------------------------------------------------------------------
(* main started with credentials that are set but empty *)

\* os.getenv: None when the variable is not set, '' when it is set to
\* nothing, its text otherwise
SetOrEmpty == EnvValues \cup {PyStr("")}

InitCredentials ==
    /\ PRACTICUM_TOKEN \in SetOrEmpty
    /\ TELEGRAM_TOKEN \in SetOrEmpty
    /\ TELEGRAM_CHAT_ID \in SetOrEmpty
    /\ InitLoop

\* requests.get failing, and answering with one reviewed homework
FewOutcomes ==
    {Raise(Exc("ConnectionError", <<>>)),
     Return([status_code |-> HTTP_OK,
             json |-> Return(PyDict(
                 Field("homeworks",
                       PyList(<<Homework(PyStr("Proj1"), PyStr("approved"))>>))
                 @@ Field("current_date", PyInt(1500))))])}

NextCredentials == Startup \/ Poll(FewOutcomes) \/ ForItem \/ Else \/ Except

SpecCredentials == InitCredentials /\ [][NextCredentials]_vars

\* main is in its loop
InLoop == pc \in {"loop", "for", "except"}

\* C12: whenever main's loop is running all three credentials are non-empty
\* texts: an empty credential stops main at startup as an absent one does.
C12_NonEmptyCredentials ==
    InLoop =>
        \A value \in {PRACTICUM_TOKEN, TELEGRAM_TOKEN, TELEGRAM_CHAT_ID} :
            value # None /\ value # PyStr("")

----------------------------------------------------------------------------
(* check_response and parse_status called on their own *)

\* what a JSON body can hold under 'homeworks'
HomeworksValues ==
    {Absent, None, PyStr("homeworks"), PyInt(1), PyDict(EmptyDict)}
    \cup {PyList(q) : q \in SeqsUpTo(Items, MaxItems)}

\* JSON bodies that are objects
Mappings ==
    {PyDict(Field("homeworks", h) @@ Field("current_date", d)) :
        h \in HomeworksValues, d \in Dates}

\* JSON bodies that are arrays, strings, null or numbers
NonMappings ==
    {PyList(<<>>), PyList(<<Homework(PyStr("Proj1"), PyStr("approved"))>>),
     PyStr("homeworks"), PyStr(""), None, PyInt(0)}

\* the homework_name of an item: a text, nothing, null, a number
AnyNames == Names \cup {PyStr(""), Absent, None, PyInt(7)}

\* items, with and without a field parse_status does not read
AnyItems ==
    {PyDict(Homework(n, s).v @@ extra) :
        n \in AnyNames, s \in Statuses,
        extra \in {EmptyDict, Field("lesson_name", PyStr("Sprint 7"))}}
    \cup {PyStr("Proj1"), None}

Calls ==
    {[fn |-> "check_response", arg |-> r, result |-> Unbound] :
        r \in Mappings \cup NonMappings}
    \cup {[fn |-> "parse_status", arg |-> h, result |-> Unbound] :
        h \in AnyItems}

InitFunctions ==
    /\ PRACTICUM_TOKEN = PyStr("secret")
    /\ TELEGRAM_TOKEN = PyStr("secret")
    /\ TELEGRAM_CHAT_ID = PyStr("secret")
    /\ pc = "call"
    /\ now = StartTime
    /\ current_timestamp = Unbound
    /\ box_error = Unbound
    /\ response = Unbound
    /\ homeworks = Unbound
    /\ idx = 0
    /\ error = Unbound
    /\ unhandled = Unbound
    /\ fetch = Unbound
    /\ last_call = NoCall
    /\ chat = <<>>
    /\ cursor_at_start = Unbound
    /\ log = <<>>
    /\ alerted = ""
    /\ call \in Calls

CallCheckResponse ==
    /\ pc = "call"
    /\ call.fn = "check_response"
    /\ call' = [call EXCEPT !.result = check_response(call.arg)]
    /\ pc' = "returned"
    /\ UNCHANGED <<env, now, current_timestamp, box_error, iteration,
                   unhandled, last_call, log, alerted>>

CallParseStatus ==
    /\ pc = "call"
    /\ call.fn = "parse_status"
    /\ call' = [call EXCEPT !.result = parse_status(call.arg)]
    /\ pc' = "returned"
    /\ UNCHANGED <<env, now, current_timestamp, box_error, iteration,
                   unhandled, last_call, log, alerted>>

NextFunctions == CallCheckResponse \/ CallParseStatus

SpecFunctions == InitFunctions /\ [][NextFunctions]_vars

\* check_response has been called and has returned or raised
Checked == pc = "returned" /\ call.fn = "check_response"

\* its argument is a dict with the key 'homeworks'
HasHomeworks == call.arg.t = "dict" /\ "homeworks" \in DOMAIN call.arg.v

\* C13: check_response raises the TypeError 'response must be a dict' for
\* every response that is not a dict, the TypeError 'homework must be a
\* list' for every dict whose homeworks is not a list, and returns the
\* homeworks list unmodified otherwise.
C13_CheckResponseTypes ==
    Checked =>
        /\ call.arg.t # "dict" =>
              call.result
                  = Raise(Exc("TypeError", <<"response must be a dict">>))
        /\ HasHomeworks /\ call.arg.v["homeworks"].t # "list" =>
              call.result
                  = Raise(Exc("TypeError", <<"homework must be a list">>))
        /\ HasHomeworks /\ call.arg.v["homeworks"].t = "list" =>
              call.result = Return(call.arg.v["homeworks"])

\* what C13 says of dicts: the second TypeError and the returned list
CheckResponseOnMappings ==
    Checked /\ HasHomeworks =>
        IF call.arg.v["homeworks"].t = "list"
        THEN call.result = Return(call.arg.v["homeworks"])
        ELSE call.result
                 = Raise(Exc("TypeError", <<"homework must be a list">>))

HomeworksUnavailable == Exc("KeyError", <<"Key homeworks is not available">>)

\* C14 as stated: check_response raises a KeyError whenever the response
\* has no key 'homeworks', be the response a dict or not.
C14_Original ==
    Checked /\ ~HasHomeworks =>
        ~call.result.ok /\ call.result.val.type = "KeyError"

\* C14 as amended: check_response raises its KeyError exactly for the dicts
\* that have no key 'homeworks'; a response that is not a dict raises a
\* TypeError.
C14_MissingKey ==
    Checked =>
        /\ call.arg.t = "dict" /\ ~HasHomeworks =>
              call.result = Raise(HomeworksUnavailable)
        /\ call.arg.t # "dict" =>
              ~call.result.ok /\ call.result.val.type = "TypeError"
        /\ ~call.result.ok /\ call.result.val.type = "KeyError" =>
              call.arg.t = "dict" /\ ~HasHomeworks

C14_Witness ==
    /\ Checked
    /\ call.arg = PyDict(Field("current_date", PyInt(1500)))
    /\ call.result = Raise(HomeworksUnavailable)

\* parse_status has been called and has returned or raised
Parsed == pc = "returned" /\ call.fn = "parse_status"

\* the texts the three statuses are announced with
Verdict ==
    [approved |-> "Work checked: the reviewer liked everything. Hooray!",
     reviewing |-> "Work taken for review by the reviewer.",
     rejected |-> "Work checked: the reviewer has remarks."]

\* how the message shows a name
Shown(name) ==
    CASE name = PyStr("Proj1") -> "Proj1"
      [] name = PyStr("") -> ""
      [] name = PyInt(7) -> "7"
      [] name = None -> "None"

\* C15: for an item whose status is approved, reviewing or rejected and
\* for every name, parse_status returns the template filled with that
\* name and the verdict of that status, whatever else the item holds.
C15_ParseStatusTemplate ==
    Parsed /\ call.arg.t = "dict" =>
        LET name == Get(call.arg, "homework_name")
            status == Get(call.arg, "status")
        IN  status \in {PyStr("approved"), PyStr("reviewing"),
                        PyStr("rejected")} =>
                call.result
                    = Return("Changed review status of \"" \o Shown(name)
                             \o "\". " \o Verdict[status.v])

C15_Witness ==
    /\ Parsed
    /\ call.arg = PyDict(Homework(PyStr("Proj1"), PyStr("reviewing")).v
                         @@ Field("lesson_name", PyStr("Sprint 7")))
    /\ call.result
           = Return("Changed review status of \"Proj1\". "
                    \o "Work taken for review by the reviewer.")

----------------------------------------------------------------------------
(* The cursor and the last reported error over main's loop *)

C17_LastDeliveredAlert ==
    /\ (InLoop \/ (pc = "crashed" /\ last_call.issued)) =>
          box_error = alerted
    /\ (log # <<>> /\ Last(log).alerts = 1) => alerted = Last(log).message

\* two failed iterations with different messages, each alerted: box_error
\* is the later message
C17_Witness ==
    /\ pc = "loop"
    /\ Len(log) = 2
    /\ log[1].alerts = 1
    /\ log[2].alerts = 1
    /\ log[1].message # log[2].message
    /\ box_error = log[2].message

\* C18: a successful iteration does not reset the last reported error: a
\* failed iteration sends no alert exactly when its message is that of the
\* last delivered alert, successful iterations in between or not, and
\* after a failure followed by a success box_error is still the failure's
\* message.
C18_SuccessKeepsLastError ==
    /\ \A i \in 1..Len(log) :
          log[i].outcome = "failed" => (log[i].alerts = 0 <=> log[i].known)
    /\ (/\ pc = "loop"
        /\ Len(log) = 2
        /\ log[1].outcome = "failed"
        /\ log[2].outcome = "ok") => box_error = log[1].message

\* a success, then a failure that repeats the error alerted before the
\* success and sends nothing
C18_Witness ==
    /\ pc = "loop"
    /\ Len(log) = 2
    /\ log[1].outcome = "ok"
    /\ log[2].outcome = "failed"
    /\ log[2].known
    /\ log[2].alerts = 0
    /\ box_error = log[2].message

====
